---- MODULE Spec2Model ----
(***************************************************************************)
(* Model of csv2sql (src/main.go): mapping parser, record projector,       *)
(* statement generator and the run pipeline.                               *)
(*                                                                         *)
(* Go strings are modelled as sequences of one-character strings, so that  *)
(* strings.Split, byte-wise string comparison and strconv.ParseInt are     *)
(* computed the way the code computes them.                                *)
(***************************************************************************)
EXTENDS Integers, Sequences, FiniteSets, TLC

VARIABLES
  pc,             \* control position of the call being modelled
  tfstrings,      \* argument of the mapping-parser calls
  ret,            \* value returned by the last function-level call
  csv,            \* sqlRecords: csvRecords argument (run: the loaded records)
  cols,           \* sqlRecords: columns argument
  valTransforms,  \* sqlRecords: valTransforms argument
  recIdx,         \* sqlRecords: position of the outer loop in csvRecords
  todo,           \* sqlRecords: fields of the current record not yet ranged over
  sqlRecord,      \* sqlRecords: projected record under construction
  sqlRecordsOut,  \* sqlRecords: the result slice built so far
  results,        \* results returned by the completed sqlRecords calls
  updates,        \* updateQueries: updates argument (run: the sorted projection)
  table,          \* updateQueries: table argument
  pk,             \* updateQueries: pk argument (run: the primary-key column)
  args,           \* run: the parsed command line and the file behind CSVPath
  err,            \* run: the err variable, as last assigned by a stage
  runRet,         \* run: the error value returned to main
  stdout,         \* what the process has printed to standard output
  exitCode        \* exit status of the process, -1 while it runs

parseVars == <<tfstrings, ret>>
projVars == <<csv, cols, valTransforms, recIdx, todo, sqlRecord, sqlRecordsOut, results>>
genVars == <<updates, table, pk>>
runVars == <<args, err, runRet, stdout, exitCode>>

vars == <<pc, parseVars, projVars, genVars, runVars>>

----------------------------------------------------------------------------
(* Bounds *)

MaxSpecLen == 6
MaxSpecs == 3
MaxRecords == 1
MaxCols == 2
MaxSubs == 2
MaxUpdates == 2
MaxRows == 2

----------------------------------------------------------------------------
(* Strings *)

Arrow == <<"-", ">">>

SpecAlphabet == {"a", "-", ">"}

StringsUpTo(alphabet, n) == UNION {[1..k -> alphabet] : k \in 0..n}

SeqsUpTo(S, n) == UNION {[1..k -> S] : k \in 0..n}

\* strings.Index(s, sep) for a non-empty sep, 1-based; 0 when sep is absent.
Index(s, sep) ==
  LET hits == {i \in 1..(Len(s) - Len(sep) + 1) : SubSeq(s, i, i + Len(sep) - 1) = sep}
  IN  IF hits = {} THEN 0 ELSE CHOOSE i \in hits : \A j \in hits : i <= j

\* strings.Split(s, sep) for a non-empty sep.
RECURSIVE Split(_, _)
Split(s, sep) ==
  LET m == Index(s, sep)
  IN  IF m = 0
      THEN <<s>>
      ELSE <<SubSeq(s, 1, m - 1)>> \o Split(SubSeq(s, m + Len(sep), Len(s)), sep)

\* Byte value of a character (Go compares strings byte-wise).
Ord(c) ==
  CASE c = "(" -> 40 [] c = ")" -> 41 [] c = "+" -> 43 [] c = "-" -> 45
    [] c = "0" -> 48 [] c = "1" -> 49 [] c = "2" -> 50 [] c = "3" -> 51
    [] c = "4" -> 52 [] c = "5" -> 53 [] c = "6" -> 54 [] c = "7" -> 55
    [] c = "8" -> 56 [] c = "9" -> 57 [] c = ">" -> 62 [] c = "?" -> 63
    [] c = "a" -> 97 [] c = "b" -> 98 [] c = "c" -> 99 [] c = "d" -> 100
    [] c = "i" -> 105 [] c = "k" -> 107 [] c = "n" -> 110 [] c = "o" -> 111
    [] c = "t" -> 116 [] c = "w" -> 119 [] c = "x" -> 120 [] c = "y" -> 121
    [] c = "z" -> 122

\* a < b on Go strings: lexicographic on bytes.
RECURSIVE StrLess(_, _)
StrLess(a, b) ==
  CASE b = <<>> -> FALSE
    [] a = <<>> -> TRUE
    [] Ord(Head(a)) # Ord(Head(b)) -> Ord(Head(a)) < Ord(Head(b))
    [] OTHER -> StrLess(Tail(a), Tail(b))

\* Number of occurrences of the character c in s.
CountChar(s, c) == Cardinality({i \in 1..Len(s) : s[i] = c})

----------------------------------------------------------------------------
(* Records: Go map[string]string *)

EmptyRecord == [k \in {} |-> <<>>]

\* m[k] of a Go map: the zero value "" when the key is absent.
Get(m, k) == IF k \in DOMAIN m THEN m[k] ELSE <<>>

\* m[k] = v
Put(m, k, v) == [x \in (DOMAIN m) \cup {k} |-> IF x = k THEN v ELSE m[x]]

----------------------------------------------------------------------------
(* Mapping parser *)

NoErr == [kind |-> "nil"]

NoTransform == [CSV |-> <<>>, SQL |-> <<>>]

\* Variant: a string with more than one "->" is accepted, keeping the first
\* and the last part.
newTransformLenient(tfstring) ==
  LET names == Split(tfstring, Arrow)
  IN  IF Len(names) = 1
      THEN [tf |-> [CSV |-> names[1], SQL |-> names[1]], err |-> NoErr]
      ELSE [tf |-> [CSV |-> names[1], SQL |-> names[Len(names)]], err |-> NoErr]

newTransform(tfstring) ==
  LET names == Split(tfstring, Arrow)
  IN  CASE Len(names) = 1 ->
             [tf |-> [CSV |-> names[1], SQL |-> names[1]], err |-> NoErr]
        [] Len(names) = 2 ->
             [tf |-> [CSV |-> names[1], SQL |-> names[2]], err |-> NoErr]
        [] OTHER ->
             [tf |-> NoTransform, err |-> [kind |-> "MalformedMapping", got |-> tfstring]]

RECURSIVE transformsFrom(_, _)
transformsFrom(rest, acc) ==
  IF rest = <<>>
  THEN [transforms |-> acc, err |-> NoErr]
  ELSE LET r == newTransform(Head(rest))
       IN  IF r.err # NoErr
           THEN [transforms |-> acc, err |-> r.err]
           ELSE transformsFrom(Tail(rest), Append(acc, r.tf))

transforms(strs) == transformsFrom(strs, <<>>)

newColumn(colstring) ==
  LET r == newTransform(colstring)
  IN  [col |-> r.tf, err |-> r.err]

columns(colstrings) ==
  LET r == transforms(colstrings)
  IN  IF r.err # NoErr
      THEN [cols |-> <<>>, err |-> r.err]
      ELSE [cols |-> r.transforms, err |-> NoErr]

----------------------------------------------------------------------------
(* Specification of the mapping parser: the argument list is drawn from    *)
(* every single string up to MaxSpecLen and from batches of sample specs.  *)

SampleSpecs ==
  { <<"a">>, <<>>, <<"a", "-", ">", "b">>, <<"-", ">">>,
    <<"a", "-", ">", "b", "-", ">", "c">>, <<"-", ">", "-", ">">> }

ParseInputs ==
  {<<s>> : s \in StringsUpTo(SpecAlphabet, MaxSpecLen)} \cup SeqsUpTo(SampleSpecs, MaxSpecs)

NoRet == [fn |-> "none"]

IdleProjector ==
  /\ csv = <<>>
  /\ cols = <<>>
  /\ valTransforms = <<>>
  /\ recIdx = 1
  /\ todo = {}
  /\ sqlRecord = EmptyRecord
  /\ sqlRecordsOut = <<>>
  /\ results = <<>>

IdleGenerator ==
  /\ updates = <<>>
  /\ table = <<>>
  /\ pk = NoTransform

NoArgs ==
  [CsvPK |-> <<>>, Table |-> <<>>, Columns |-> <<>>, ValueTransforms |-> <<>>,
   Verbose |-> FALSE, File |-> [exists |-> FALSE, lines |-> <<>>]]

NotReturned == [kind |-> "none"]

IdleRun ==
  /\ args = NoArgs
  /\ err = NoErr
  /\ runRet = NotReturned
  /\ stdout = <<>>
  /\ exitCode = -1

InitParse ==
  /\ pc = "parse"
  /\ tfstrings \in ParseInputs
  /\ ret = NoRet
  /\ IdleProjector
  /\ IdleGenerator
  /\ IdleRun

CallNewTransform ==
  /\ pc = "parse"
  /\ Len(tfstrings) = 1
  /\ ret' = [fn |-> "newTransform", out |-> newTransform(tfstrings[1])]
  /\ pc' = "returned"
  /\ UNCHANGED <<tfstrings, projVars, genVars, runVars>>

CallNewColumn ==
  /\ pc = "parse"
  /\ Len(tfstrings) = 1
  /\ ret' = [fn |-> "newColumn", out |-> newColumn(tfstrings[1])]
  /\ pc' = "returned"
  /\ UNCHANGED <<tfstrings, projVars, genVars, runVars>>

CallTransforms ==
  /\ pc = "parse"
  /\ ret' = [fn |-> "transforms", out |-> transforms(tfstrings)]
  /\ pc' = "returned"
  /\ UNCHANGED <<tfstrings, projVars, genVars, runVars>>

CallColumns ==
  /\ pc = "parse"
  /\ ret' = [fn |-> "columns", out |-> columns(tfstrings)]
  /\ pc' = "returned"
  /\ UNCHANGED <<tfstrings, projVars, genVars, runVars>>

NextParse == CallNewTransform \/ CallNewColumn \/ CallTransforms \/ CallColumns

SpecParse == InitParse /\ [][NextParse]_vars

----------------------------------------------------------------------------
(* Record projector: sqlRecords *)

\* Variant: the loop stops at the first matching substitution.
RECURSIVE substituteFirst(_, _, _)
substituteFirst(csvVal, vts, v) ==
  IF vts = <<>>
  THEN v
  ELSE IF csvVal = Head(vts).CSV
       THEN Head(vts).SQL
       ELSE substituteFirst(csvVal, Tail(vts), v)

\* Inner loop over valTransforms (lines 121-126): v starts as csvVal and is
\* overwritten by every substitution whose CSV equals the raw csvVal.
RECURSIVE substitute(_, _, _)
substitute(csvVal, vts, v) ==
  IF vts = <<>>
  THEN v
  ELSE substitute(csvVal, Tail(vts),
                  IF csvVal = Head(vts).CSV THEN Head(vts).SQL ELSE v)

\* Variant: a field that matches no column is copied through under its own name.
RECURSIVE projectFieldPassThrough(_, _, _, _, _)
projectFieldPassThrough(rec, csvCol, csvVal, columnList, vts) ==
  IF columnList = <<>>
  THEN IF csvCol \in DOMAIN rec THEN rec ELSE Put(rec, csvCol, csvVal)
  ELSE LET col == Head(columnList)
           next == IF csvCol = col.CSV
                   THEN Put(rec, col.SQL, substitute(csvVal, vts, csvVal))
                   ELSE rec
       IN  projectFieldPassThrough(next, csvCol, csvVal, Tail(columnList), vts)

\* Loop over columns for one (csvCol, csvVal) pair (lines 119-129).
RECURSIVE projectField(_, _, _, _, _)
projectField(rec, csvCol, csvVal, columnList, vts) ==
  IF columnList = <<>>
  THEN rec
  ELSE LET col == Head(columnList)
           next == IF csvCol = col.CSV
                   THEN Put(rec, col.SQL, substitute(csvVal, vts, csvVal))
                   ELSE rec
       IN  projectField(next, csvCol, csvVal, Tail(columnList), vts)

\* Entry of sqlRecords: the result slice is empty and the outer loop is at
\* the first record.
SqlRecordsEnter(records) ==
  /\ recIdx' = 1
  /\ todo' = IF records = <<>> THEN {} ELSE DOMAIN records[1]
  /\ sqlRecord' = EmptyRecord
  /\ sqlRecordsOut' = <<>>

\* One iteration of "for csvCol, csvVal := range csvRecord": Go ranges over a
\* map in an unspecified order, so any field not yet visited may come next.
SqlRecordsField ==
  /\ pc = "sqlRecords"
  /\ recIdx <= Len(csv)
  /\ \E csvCol \in todo :
       /\ sqlRecord' = projectField(sqlRecord, csvCol, csv[recIdx][csvCol], cols, valTransforms)
       /\ todo' = todo \ {csvCol}
  /\ UNCHANGED <<pc, parseVars, genVars, runVars, csv, cols, valTransforms, recIdx, sqlRecordsOut, results>>

\* End of the outer loop body (line 131) and start of the next iteration.
SqlRecordsAppend ==
  /\ pc = "sqlRecords"
  /\ recIdx <= Len(csv)
  /\ todo = {}
  /\ sqlRecordsOut' = Append(sqlRecordsOut, sqlRecord)
  /\ recIdx' = recIdx + 1
  /\ sqlRecord' = EmptyRecord
  /\ todo' = IF recIdx + 1 <= Len(csv) THEN DOMAIN csv[recIdx + 1] ELSE {}
  /\ UNCHANGED <<pc, parseVars, genVars, runVars, csv, cols, valTransforms, results>>

\* return sqlRecords, nil (line 133)
SqlRecordsReturn ==
  /\ pc = "sqlRecords"
  /\ recIdx > Len(csv)
  /\ results' = Append(results, sqlRecordsOut)
  /\ pc' = "sqlRecords_ret"
  /\ UNCHANGED <<parseVars, genVars, runVars, csv, cols, valTransforms, recIdx, todo, sqlRecord, sqlRecordsOut>>

\* A second call of sqlRecords with the identical arguments.
SqlRecordsCallAgain ==
  /\ pc = "sqlRecords_ret"
  /\ Len(results) = 1
  /\ SqlRecordsEnter(csv)
  /\ pc' = "sqlRecords"
  /\ UNCHANGED <<parseVars, genVars, runVars, csv, cols, valTransforms, results>>

----------------------------------------------------------------------------
(* Specification of the projector: arguments drawn from bounded sets.      *)

S_a == <<"a">>
S_b == <<"b">>
S_c == <<"c">>
S_k == <<"k">>
S_x == <<"x">>
S_y == <<"y">>
S_z == <<"z">>

ProjFields == {S_a, S_b}
ProjValues == {S_x, S_y}

ProjRecords == UNION {[D -> ProjValues] : D \in SUBSET ProjFields}

ProjColumns ==
  { [CSV |-> S_a, SQL |-> S_k], [CSV |-> S_b, SQL |-> S_k],
    [CSV |-> S_a, SQL |-> S_a], [CSV |-> S_c, SQL |-> S_c] }

ProjSubs == { [CSV |-> S_x, SQL |-> S_y], [CSV |-> S_x, SQL |-> S_z] }

InitProject ==
  /\ pc = "sqlRecords"
  /\ tfstrings = <<>>
  /\ ret = NoRet
  /\ csv \in SeqsUpTo(ProjRecords, MaxRecords)
  /\ cols \in SeqsUpTo(ProjColumns, MaxCols)
  /\ valTransforms \in SeqsUpTo(ProjSubs, MaxSubs)
  /\ recIdx = 1
  /\ todo = IF csv = <<>> THEN {} ELSE DOMAIN csv[1]
  /\ sqlRecord = EmptyRecord
  /\ sqlRecordsOut = <<>>
  /\ results = <<>>
  /\ IdleGenerator
  /\ IdleRun

NextProject ==
  SqlRecordsField \/ SqlRecordsAppend \/ SqlRecordsReturn \/ SqlRecordsCallAgain

SpecProject == InitProject /\ [][NextProject]_vars

----------------------------------------------------------------------------
(* Statement generator: updateQueries *)

Digits == {"0", "1", "2", "3", "4", "5", "6", "7", "8", "9"}

NowCall == <<"n", "o", "w", "(", ")">>

RECURSIVE parseDigits(_, _)
parseDigits(s, acc) ==
  IF s = <<>> THEN acc ELSE parseDigits(Tail(s), acc * 10 + (Ord(Head(s)) - 48))

\* strconv.ParseInt(v, 10, 64): an optional sign followed by one or more
\* decimal digits. The range error needs 19 digits or more, which is
\* beyond the values drawn here.
ParseInt(v) ==
  LET signed == v # <<>> /\ Head(v) \in {"+", "-"}
      body == IF signed THEN Tail(v) ELSE v
  IN  IF body = <<>> \/ \E i \in 1..Len(body) : body[i] \notin Digits
      THEN [ok |-> FALSE, val |-> 0]
      ELSE [ok |-> TRUE,
            val |-> IF signed /\ Head(v) = "-"
                    THEN 0 - parseDigits(body, 0)
                    ELSE parseDigits(body, 0)]

\* The values handed to the statement builder: nil, sqlbuilder.Raw, int64, string.
ArgNil == [type |-> "nil"]
Raw(expr) == [type |-> "Raw", expr |-> expr]
ArgInt(n) == [type |-> "int64", val |-> n]
ArgString(v) == [type |-> "string", val |-> v]

intif(v) ==
  LET r == ParseInt(v)
  IN  IF r.ok THEN ArgInt(r.val) ELSE ArgString(v)

\* maps.Keys followed by sort.Strings.
RECURSIVE sortStrings(_)
sortStrings(S) ==
  IF S = {}
  THEN <<>>
  ELSE LET m == CHOOSE x \in S : \A y \in S : ~StrLess(y, x)
       IN  <<m>> \o sortStrings(S \ {m})

\* ub.Assign(col, value)
Assign(col, arg) == [col |-> col, arg |-> arg]

\* Variant: the "now()" case is missing, so the value falls through to intif.
RECURSIVE assignColumnsNoRaw(_, _, _, _, _)
assignColumnsNoRaw(upd, colNames, pkcol, assigns, pkVal) ==
  IF colNames = <<>>
  THEN [assigns |-> assigns, pkVal |-> pkVal]
  ELSE LET col == Head(colNames)
           v == Get(upd, col)
       IN  IF col = pkcol.SQL
           THEN assignColumnsNoRaw(upd, Tail(colNames), pkcol, assigns, v)
           ELSE IF v = <<>>
           THEN assignColumnsNoRaw(upd, Tail(colNames), pkcol,
                                   Append(assigns, Assign(col, ArgNil)), pkVal)
           ELSE assignColumnsNoRaw(upd, Tail(colNames), pkcol,
                                   Append(assigns, Assign(col, intif(v))), pkVal)

\* Variant: a column the record has no key for is skipped.
RECURSIVE assignColumnsSkipMissing(_, _, _, _, _)
assignColumnsSkipMissing(upd, colNames, pkcol, assigns, pkVal) ==
  IF colNames = <<>>
  THEN [assigns |-> assigns, pkVal |-> pkVal]
  ELSE LET col == Head(colNames)
           v == Get(upd, col)
       IN  IF col = pkcol.SQL
           THEN assignColumnsSkipMissing(upd, Tail(colNames), pkcol, assigns, v)
           ELSE IF col \notin DOMAIN upd
           THEN assignColumnsSkipMissing(upd, Tail(colNames), pkcol, assigns, pkVal)
           ELSE IF v = <<>>
           THEN assignColumnsSkipMissing(upd, Tail(colNames), pkcol,
                                         Append(assigns, Assign(col, ArgNil)), pkVal)
           ELSE IF v = NowCall
           THEN assignColumnsSkipMissing(upd, Tail(colNames), pkcol,
                                         Append(assigns, Assign(col, Raw(v))), pkVal)
           ELSE assignColumnsSkipMissing(upd, Tail(colNames), pkcol,
                                         Append(assigns, Assign(col, intif(v))), pkVal)

\* The switch over the columns of one record (lines 152-164).
RECURSIVE assignColumns(_, _, _, _, _)
assignColumns(upd, colNames, pkcol, assigns, pkVal) ==
  IF colNames = <<>>
  THEN [assigns |-> assigns, pkVal |-> pkVal]
  ELSE LET col == Head(colNames)
           v == Get(upd, col)
       IN  IF col = pkcol.SQL
           THEN assignColumns(upd, Tail(colNames), pkcol, assigns, v)
           ELSE IF v = <<>>
           THEN assignColumns(upd, Tail(colNames), pkcol,
                              Append(assigns, Assign(col, ArgNil)), pkVal)
           ELSE IF v = NowCall
           THEN assignColumns(upd, Tail(colNames), pkcol,
                              Append(assigns, Assign(col, Raw(v))), pkVal)
           ELSE assignColumns(upd, Tail(colNames), pkcol,
                              Append(assigns, Assign(col, intif(v))), pkVal)

\* Variant: the predicate value goes through the cases of the SET switch.
whereArgAsSet(pkVal) ==
  IF pkVal = <<>> THEN ArgNil
  ELSE IF pkVal = NowCall THEN Raw(pkVal)
  ELSE intif(pkVal)

\* The argument of the WHERE predicate (line 166).
whereArg(pkVal) == intif(pkVal)

\* ub.Build(): the statement text holds one "?" per argument that is not
\* Raw, next to the table and column names as given; args are the values of
\* those placeholders in order.
Build(ub) ==
  LET bound == SelectSeq(ub.assigns, LAMBDA a : a.arg.type # "Raw")
      nameMarks(i) == CountChar(ub.assigns[i].col, "?")
      RECURSIVE marks(_)
      marks(i) == IF i = 0 THEN 0 ELSE marks(i - 1) + nameMarks(i)
  IN  [marks |-> CountChar(ub.table, "?") + marks(Len(ub.assigns)) + Len(bound)
                   + CountChar(ub.where.col, "?") + 1,
       args |-> [i \in 1..Len(bound) |-> bound[i].arg] \o <<ub.where.arg>>]

\* How Interpolate writes one value into the statement text.
Literal(arg) ==
  CASE arg.type = "nil" -> [lit |-> "NULL"]
    [] arg.type = "Raw" -> [lit |-> "raw", text |-> arg.expr]
    [] arg.type = "int64" -> [lit |-> "number", val |-> arg.val]
    [] arg.type = "string" -> [lit |-> "quoted", text |-> arg.val]

\* sqlbuilder.MySQL.Interpolate(sql, args): every "?" of the text consumes
\* one argument, and the call fails when the arguments run out.
Interpolate(ub) ==
  LET b == Build(ub)
  IN  IF b.marks > Len(b.args)
      THEN [query |-> <<>>, err |-> [kind |-> "ErrInterpolateMissingArgs"]]
      ELSE [query |-> [table |-> ub.table,
                       set |-> [i \in 1..Len(ub.assigns) |->
                                  [col |-> ub.assigns[i].col,
                                   value |-> Literal(ub.assigns[i].arg)]],
                       where |-> [col |-> ub.where.col,
                                  value |-> Literal(ub.where.arg)]],
            err |-> NoErr]

\* The loop over updates (lines 147-173).
RECURSIVE updateLoop(_, _, _, _, _)
updateLoop(rest, colNames, tbl, pkcol, queries) ==
  IF rest = <<>>
  THEN [panic |-> FALSE, queries |-> queries, err |-> NoErr]
  ELSE LET a == assignColumns(Head(rest), colNames, pkcol, <<>>, <<>>)
           ub == [table |-> tbl, assigns |-> a.assigns,
                  where |-> [col |-> pkcol.SQL, arg |-> whereArg(a.pkVal)]]
           r == Interpolate(ub)
       IN  IF r.err # NoErr
           THEN [panic |-> FALSE, queries |-> queries, err |-> r.err]
           ELSE updateLoop(Tail(rest), colNames, tbl, pkcol, Append(queries, r.query))

\* updates[0] on an empty slice is an index-out-of-range panic (line 145).
updateQueries(upds, tbl, pkcol) ==
  IF upds = <<>>
  THEN [panic |-> TRUE, queries |-> <<>>, err |-> NoErr]
  ELSE updateLoop(upds, sortStrings(DOMAIN upds[1]), tbl, pkcol, <<>>)

----------------------------------------------------------------------------
(* Specification of the generator: arguments drawn from bounded sets.      *)

S_id == <<"i", "d">>
S_t == <<"t">>
S_tq == <<"t", "?">>

GenRecords ==
  LET ids == {<<>>, NowCall, <<"1", "0">>, <<"2">>}
      cs == {<<>>, NowCall, <<"-", "5">>, <<"1", "x">>}
      bs == {<<"+", "7">>}
      vals(k) == IF k = S_id THEN ids ELSE IF k = S_c THEN cs ELSE bs
  IN  UNION {{r \in [D -> ids \cup cs \cup bs] : \A k \in D : r[k] \in vals(k)} :
             D \in SUBSET {S_id, S_c, S_b}}

GenPKs == {[CSV |-> S_id, SQL |-> S_id], [CSV |-> S_id, SQL |-> S_k]}

GenTables == {S_t, S_tq}

InitGen ==
  /\ pc = "updateQueries"
  /\ tfstrings = <<>>
  /\ ret = NoRet
  /\ IdleProjector
  /\ updates \in SeqsUpTo(GenRecords, MaxUpdates)
  /\ table \in GenTables
  /\ pk \in GenPKs
  /\ IdleRun

CallUpdateQueries ==
  /\ pc = "updateQueries"
  /\ ret' = [fn |-> "updateQueries", out |-> updateQueries(updates, table, pk)]
  /\ pc' = "returned"
  /\ UNCHANGED <<tfstrings, projVars, genVars, runVars>>

NextGen == CallUpdateQueries

SpecGen == InitGen /\ [][NextGen]_vars

----------------------------------------------------------------------------
(* Record loader: csvRecords *)

\* record[header] = line[i] for the headers in order (lines 104-107).
RECURSIVE zipRecord(_, _, _, _)
zipRecord(csvHeaders, line, i, rec) ==
  IF i > Len(csvHeaders)
  THEN rec
  ELSE zipRecord(csvHeaders, line, i + 1, Put(rec, csvHeaders[i], line[i]))

\* os.Open fails on a missing file; ReadAll fails when a row has another
\* number of fields than the first one; lines[0] of a file without rows is
\* an index-out-of-range panic (line 102).
csvRecords(file) ==
  IF ~file.exists
  THEN [panic |-> FALSE, records |-> <<>>, err |-> [kind |-> "ErrNotExist"]]
  ELSE IF \E i \in 1..Len(file.lines) : Len(file.lines[i]) # Len(file.lines[1])
  THEN [panic |-> FALSE, records |-> <<>>, err |-> [kind |-> "ErrFieldCount"]]
  ELSE IF file.lines = <<>>
  THEN [panic |-> TRUE, records |-> <<>>, err |-> NoErr]
  ELSE [panic |-> FALSE,
        records |-> [n \in 1..(Len(file.lines) - 1) |->
                       zipRecord(file.lines[1], file.lines[n + 1], 1, EmptyRecord)],
        err |-> NoErr]

----------------------------------------------------------------------------
(* Orchestrator: updateCmd.run and main *)

\* cmd.debug and cmd.logV print only in verbose mode.
debug(msg) == IF args.Verbose THEN <<[kind |-> "debug", msg |-> msg]>> ELSE <<>>

\* Variant: the primary-key values are compared as numbers when both parse.
lessNumeric(upds, i, j, pkcol) ==
  LET a == Get(upds[i], pkcol.SQL)
      b == Get(upds[j], pkcol.SQL)
  IN  IF ParseInt(a).ok /\ ParseInt(b).ok
      THEN ParseInt(a).val < ParseInt(b).val
      ELSE StrLess(a, b)

\* The less function handed to sort.Slice (lines 229-231).
less(upds, i, j, pkcol) == StrLess(Get(upds[i], pkcol.SQL), Get(upds[j], pkcol.SQL))

Perms(n) == {f \in [1..n -> 1..n] : \A i \in 1..n : \A j \in 1..n : f[i] = f[j] => i = j}

\* sort.Slice is not stable: any arrangement in which no later element is
\* less than an earlier one may result.
sortSlice(upds, pkcol) ==
  LET arranged == {[i \in 1..Len(upds) |-> upds[f[i]]] : f \in Perms(Len(upds))}
  IN  {p \in arranged :
         \A i \in 1..Len(p) : \A j \in 1..Len(p) : i < j => ~less(p, j, i, pkcol)}

\* lines 197-203
RunPK ==
  /\ pc = "run"
  /\ LET r == newColumn(args.CsvPK)
     IN  /\ pk' = r.col
         /\ err' = r.err
         /\ IF r.err # NoErr
            THEN /\ runRet' = r.err
                 /\ stdout' = stdout \o debug("args")
                 /\ pc' = "run_ret"
            ELSE /\ runRet' = runRet
                 /\ stdout' = stdout \o debug("args") \o debug("pk column")
                 /\ pc' = "run_columns"
  /\ UNCHANGED <<parseVars, projVars, updates, table, args, exitCode>>

\* lines 205-209
RunColumns ==
  /\ pc = "run_columns"
  /\ LET r == columns(args.Columns)
     IN  /\ cols' = r.cols
         /\ err' = r.err
         /\ IF r.err # NoErr
            THEN /\ runRet' = r.err
                 /\ stdout' = stdout
                 /\ pc' = "run_ret"
            ELSE /\ runRet' = runRet
                 /\ stdout' = stdout \o debug("columns")
                 /\ pc' = "run_transforms"
  /\ UNCHANGED <<parseVars, genVars, args, exitCode, csv, valTransforms, recIdx, todo,
                 sqlRecord, sqlRecordsOut, results>>

\* lines 211-215
RunValTransforms ==
  /\ pc = "run_transforms"
  /\ LET r == transforms(args.ValueTransforms)
     IN  /\ valTransforms' = r.transforms
         /\ err' = r.err
         /\ IF r.err # NoErr
            THEN /\ runRet' = r.err
                 /\ stdout' = stdout
                 /\ pc' = "run_ret"
            ELSE /\ runRet' = runRet
                 /\ stdout' = stdout \o debug("value transforms")
                 /\ pc' = "run_load"
  /\ UNCHANGED <<parseVars, genVars, args, exitCode, csv, cols, recIdx, todo,
                 sqlRecord, sqlRecordsOut, results>>

\* lines 217-222
RunLoad ==
  /\ pc = "run_load"
  /\ LET r == csvRecords(args.File)
     IN  IF r.panic
         THEN /\ pc' = "panic"
              /\ exitCode' = 2
              /\ UNCHANGED <<csv, err, runRet, stdout>>
         ELSE /\ csv' = r.records
              /\ err' = r.err
              /\ exitCode' = exitCode
              /\ IF r.err # NoErr
                 THEN /\ runRet' = r.err
                      /\ stdout' = stdout
                      /\ pc' = "run_ret"
                 ELSE /\ runRet' = runRet
                      /\ stdout' = stdout \o debug("csv") \o debug("records")
                      /\ pc' = "run_project"
  /\ UNCHANGED <<parseVars, genVars, args, cols, valTransforms, recIdx, todo,
                 sqlRecord, sqlRecordsOut, results>>

\* lines 224-225: the primary-key column joins the column list and
\* sqlRecords is entered.
RunProject ==
  /\ pc = "run_project"
  /\ cols' = Append(cols, pk)
  /\ SqlRecordsEnter(csv)
  /\ pc' = "sqlRecords"
  /\ UNCHANGED <<parseVars, genVars, runVars, csv, valTransforms, results>>

\* lines 225-233: sqlRecords has returned (its error is always nil) and the
\* result is sorted.
RunSort ==
  /\ pc = "sqlRecords_ret"
  /\ updates' \in sortSlice(results[Len(results)], pk)
  /\ err' = NoErr
  /\ stdout' = stdout \o debug("updates") \o debug("records")
  /\ pc' = "run_generate"
  /\ UNCHANGED <<parseVars, projVars, table, pk, args, runRet, exitCode>>

\* lines 235-238: err of updateQueries is assigned and not looked at; the
\* joined statements are printed and nil is returned.
RunGenerate ==
  /\ pc = "run_generate"
  /\ table' = args.Table
  /\ LET r == updateQueries(updates, args.Table, pk)
     IN  IF r.panic
         THEN /\ pc' = "panic"
              /\ exitCode' = 2
              /\ UNCHANGED <<err, runRet, stdout>>
         ELSE /\ err' = r.err
              /\ stdout' = Append(stdout, [kind |-> "sql", stmts |-> r.queries])
              /\ runRet' = NoErr
              /\ exitCode' = exitCode
              /\ pc' = "run_ret"
  /\ UNCHANGED <<parseVars, projVars, updates, pk, args>>

\* main, lines 248-251
MainExit ==
  /\ pc = "run_ret"
  /\ IF runRet # NoErr
     THEN /\ stdout' = Append(stdout, [kind |-> "error", err |-> runRet])
          /\ exitCode' = 1
     ELSE /\ stdout' = stdout
          /\ exitCode' = 0
  /\ pc' = "exit"
  /\ UNCHANGED <<parseVars, projVars, genVars, args, err, runRet>>

----------------------------------------------------------------------------
(* Specification of a run: the command line and the file are drawn from    *)
(* sample sets.                                                            *)

RunPKSpecs ==
  { S_id, S_b, <<"i", "d", "-", ">", "k">>, <<"a", "-", ">", "b", "-", ">", "c">> }

RunColumnSpecs ==
  { <<S_c>>, <<<<"c", "-", ">", "k">>>>, <<S_c, <<"b", "-", ">", "c", "-", ">", "d">>>> }

RunTransformSpecs ==
  { <<>>, <<<<"x", "-", ">">>, <<"x", "-", ">", "7">>>>, <<<<"-", ">", "-", ">">>>> }

RunRows == {<<i, c>> : i \in {<<"1", "0">>, <<"2">>, <<"9">>}, c \in {S_x, <<>>}}

RunFiles ==
  { [exists |-> FALSE, lines |-> <<>>],
    [exists |-> TRUE, lines |-> <<>>],
    [exists |-> TRUE, lines |-> << <<S_id, S_c>>, <<S_x>> >>] }
  \cup {[exists |-> TRUE, lines |-> << <<S_id, S_c>> >> \o rows] :
          rows \in SeqsUpTo(RunRows, MaxRows)}

InitRun ==
  /\ pc = "run"
  /\ tfstrings = <<>>
  /\ ret = NoRet
  /\ IdleProjector
  /\ IdleGenerator
  /\ args \in [CsvPK : RunPKSpecs, Table : GenTables, Columns : RunColumnSpecs,
               ValueTransforms : RunTransformSpecs, Verbose : BOOLEAN, File : RunFiles]
  /\ err = NoErr
  /\ runRet = NotReturned
  /\ stdout = <<>>
  /\ exitCode = -1

NextRun ==
  \/ RunPK
  \/ RunColumns
  \/ RunValTransforms
  \/ RunLoad
  \/ RunProject
  \/ SqlRecordsField
  \/ SqlRecordsAppend
  \/ SqlRecordsReturn
  \/ RunSort
  \/ RunGenerate
  \/ MainExit

SpecRun == InitRun /\ [][NextRun]_vars

----------------------------------------------------------------------------
(* Properties of the mapping parser *)

\* Positions at which "->" occurs in s.
ArrowAt(s) == {i \in 1..(Len(s) - 1) : s[i] = "-" /\ s[i + 1] = ">"}

Malformed(s) == Cardinality(ArrowAt(s)) >= 2

ExpectedPair(s) ==
  IF ArrowAt(s) = {}
  THEN [CSV |-> s, SQL |-> s]
  ELSE LET i == CHOOSE j \in ArrowAt(s) : TRUE
       IN  [CSV |-> SubSeq(s, 1, i - 1), SQL |-> SubSeq(s, i + 2, Len(s))]

FirstMalformed(strs) ==
  LET bad == {k \in 1..Len(strs) : Malformed(strs[k])}
  IN  IF bad = {} THEN 0 ELSE CHOOSE k \in bad : \A j \in bad : k <= j

SingleParseOk ==
  ret.fn \in {"newTransform", "newColumn"} =>
    LET s == tfstrings[1]
        pair == IF ret.fn = "newTransform" THEN ret.out.tf ELSE ret.out.col
    IN  IF Malformed(s)
        THEN ret.out.err = [kind |-> "MalformedMapping", got |-> s]
        ELSE ret.out.err = NoErr /\ pair = ExpectedPair(s)

BatchParseOk ==
  ret.fn \in {"transforms", "columns"} =>
    LET f == FirstMalformed(tfstrings)
        list == IF ret.fn = "transforms" THEN ret.out.transforms ELSE ret.out.cols
    IN  IF f = 0
        THEN /\ ret.out.err = NoErr
             /\ list = [k \in 1..Len(tfstrings) |-> ExpectedPair(tfstrings[k])]
        ELSE /\ ret.out.err = [kind |-> "MalformedMapping", got |-> tfstrings[f]]
             /\ ret.fn = "transforms" => list = [k \in 1..(f - 1) |-> ExpectedPair(tfstrings[k])]
             /\ ret.fn = "columns" => list = <<>>

\* C1: newTransform and newColumn yield (s, s) for a string without "->",
\* (text before, text after) for a string with exactly one "->", and a
\* malformed-mapping error for two or more; transforms and columns fail at the
\* first malformed string of the batch, and otherwise parse every string.
C1_ParseContract == SingleParseOk /\ BatchParseOk

\* A batch whose second or later string is malformed, after a string with
\* exactly one "->" was parsed.
C1_Witness ==
  /\ pc = "returned"
  /\ ret.fn = "transforms"
  /\ ret.out.err # NoErr
  /\ Len(ret.out.transforms) >= 1
  /\ \E k \in 1..Len(ret.out.transforms) :
       ret.out.transforms[k].CSV # ret.out.transforms[k].SQL

----------------------------------------------------------------------------
(* Properties of the projector *)

\* Indices of the substitutions whose source equals the raw value.
Matches(raw) == {n \in 1..Len(valTransforms) : valTransforms[n].CSV = raw}

Least(S) == CHOOSE n \in S : \A m \in S : n <= m
Greatest(S) == CHOOSE n \in S : \A m \in S : n >= m

FirstMatchValue(raw) ==
  IF Matches(raw) = {} THEN raw ELSE valTransforms[Least(Matches(raw))].SQL

LastMatchValue(raw) ==
  IF Matches(raw) = {} THEN raw ELSE valTransforms[Greatest(Matches(raw))].SQL

\* Fields of input record i that some column maps to target t.
SourcesOf(i, t) ==
  {f \in DOMAIN csv[i] : \E n \in 1..Len(cols) : cols[n].CSV = f /\ cols[n].SQL = t}

\* C5 as stated: the projected value is the target of the FIRST matching
\* substitution in list order (the raw value when none matches).
C5_FirstMatchWins ==
  \A r \in 1..Len(results) : \A i \in 1..Len(results[r]) : \A t \in DOMAIN results[r][i] :
    \E f \in SourcesOf(i, t) : results[r][i][t] = FirstMatchValue(csv[i][f])

\* C5 amended: the projected value is the target of the LAST matching
\* substitution in list order; with exactly one match it is that target, and
\* with none the raw value is copied unchanged.
C5_LastMatchWins ==
  \A r \in 1..Len(results) : \A i \in 1..Len(results[r]) : \A t \in DOMAIN results[r][i] :
    \E f \in SourcesOf(i, t) : results[r][i][t] = LastMatchValue(csv[i][f])

\* A projected value whose raw value matched two substitutions with
\* different targets.
C5_Witness ==
  /\ results # <<>>
  /\ \E i \in 1..Len(results[1]) : \E t \in DOMAIN results[1][i] : \E f \in SourcesOf(i, t) :
       /\ Cardinality(Matches(csv[i][f])) >= 2
       /\ FirstMatchValue(csv[i][f]) # LastMatchValue(csv[i][f])
       /\ results[1][i][t] = LastMatchValue(csv[i][f])

\* C6: two calls of sqlRecords with identical arguments return identical
\* sequences of projected records.
C6_Deterministic == Len(results) = 2 => results[1] = results[2]

\* C7: closed projection. The result has one record per input record, and
\* the keys of each are exactly the targets of the columns whose source is a
\* field of the input record: an unmapped field adds no key, and a column
\* whose source is absent adds none.
C7_ClosedProjection ==
  \A r \in 1..Len(results) :
    /\ Len(results[r]) = Len(csv)
    /\ \A i \in 1..Len(results[r]) :
         DOMAIN results[r][i] =
           {cols[n].SQL : n \in {m \in 1..Len(cols) : cols[m].CSV \in DOMAIN csv[i]}}

\* A projected record with a key, from an input record with an unmapped
\* field, under a column list holding a column whose source is absent.
C7_Witness ==
  /\ results # <<>>
  /\ \E i \in 1..Len(results[1]) :
       /\ DOMAIN results[1][i] # {}
       /\ \E f \in DOMAIN csv[i] : \A n \in 1..Len(cols) : cols[n].CSV # f
       /\ \E n \in 1..Len(cols) : cols[n].CSV \notin DOMAIN csv[i]

----------------------------------------------------------------------------
(* Properties of the generator *)

Generated == pc = "returned" /\ ret.fn = "updateQueries"

\* v is an optional sign followed by one or more decimal digits.
IsIntegerText(v) ==
  LET body == IF v # <<>> /\ v[1] \in {"+", "-"} THEN SubSeq(v, 2, Len(v)) ELSE v
  IN  body # <<>> /\ \A i \in 1..Len(body) : body[i] \in Digits

RECURSIVE Pow10(_)
Pow10(n) == IF n = 0 THEN 1 ELSE 10 * Pow10(n - 1)

RECURSIVE SumTo(_, _)
SumTo(f, n) == IF n = 0 THEN 0 ELSE f[n] + SumTo(f, n - 1)

\* The number an integer text denotes.
IntegerValue(v) ==
  LET body == IF v[1] \in {"+", "-"} THEN SubSeq(v, 2, Len(v)) ELSE v
      mag == SumTo([i \in 1..Len(body) |-> (Ord(body[i]) - 48) * Pow10(Len(body) - i)],
                   Len(body))
  IN  IF v[1] = "-" THEN 0 - mag ELSE mag

IntOrString(v) ==
  IF IsIntegerText(v)
  THEN [lit |-> "number", val |-> IntegerValue(v)]
  ELSE [lit |-> "quoted", text |-> v]

\* The ordered rule chain: "" is NULL, "now()" is the raw expression, an
\* integer text is a number, anything else a quoted string.
RuleChain(v) ==
  IF v = <<>> THEN [lit |-> "NULL"]
  ELSE IF v = NowCall THEN [lit |-> "raw", text |-> NowCall]
  ELSE IntOrString(v)

\* Positions of the SET list of q that assign column c.
AssignsOf(q, c) == {n \in 1..Len(q.set) : q.set[n].col = c}

\* The kinds of literal in the SET list of q.
LitsOf(q) == {q.set[n].value.lit : n \in 1..Len(q.set)}

\* C3: with an empty sequence of records updateQueries returns an
\* EmptyInput error to its caller; it does not crash.
C3_EmptyInputError ==
  (Generated /\ updates = <<>>) =>
    (~ret.out.panic /\ ret.out.err.kind = "EmptyInput")

\* C8: for every record and every column of the first record's key set other
\* than the primary-key target that the record holds, the SET list has
\* exactly one assignment, whose value follows the ordered rule chain; the
\* primary-key target is never assigned.
C8_SetRuleChain ==
  Generated =>
    \A i \in 1..Len(ret.out.queries) :
      LET q == ret.out.queries[i]
      IN  /\ AssignsOf(q, pk.SQL) = {}
          /\ \A c \in (DOMAIN updates[1] \cap DOMAIN updates[i]) \ {pk.SQL} :
               /\ Cardinality(AssignsOf(q, c)) = 1
               /\ \A n \in AssignsOf(q, c) : q.set[n].value = RuleChain(updates[i][c])

\* Two statements whose SET lists show NULL, the raw expression and a
\* number, from a record list holding the primary-key column.
C8_Witness ==
  /\ Generated
  /\ Len(ret.out.queries) = 2
  /\ pk.SQL \in DOMAIN updates[1]
  /\ {"NULL", "number"} \subseteq LitsOf(ret.out.queries[1])
  /\ {"raw", "number"} \subseteq LitsOf(ret.out.queries[2])

\* The primary-key value of record i as the loop reads it: the zero value
\* when the primary-key target is no column of the first record.
PkValue(i) ==
  IF pk.SQL \in DOMAIN updates[1] THEN Get(updates[i], pk.SQL) ELSE <<>>

\* C9 as stated: the WHERE value follows the same rule chain as SET values.
C9_WhereRuleChain ==
  Generated =>
    \A i \in 1..Len(ret.out.queries) :
      ret.out.queries[i].where = [col |-> pk.SQL, value |-> RuleChain(PkValue(i))]

\* C9 amended: the WHERE value follows the integer-or-string rule only: an
\* integer text is a number, and any other value, "" and "now()" included,
\* is a quoted string.
C9_WhereIntOrString ==
  Generated =>
    \A i \in 1..Len(ret.out.queries) :
      ret.out.queries[i].where = [col |-> pk.SQL, value |-> IntOrString(PkValue(i))]

\* Two statements, one with the primary-key value "now()" and one with the
\* primary-key value "" held under the primary-key column, both rendered as
\* quoted strings.
C9_Witness ==
  /\ Generated
  /\ \E i \in 1..Len(ret.out.queries) :
       /\ PkValue(i) = NowCall
       /\ ret.out.queries[i].where.value = [lit |-> "quoted", text |-> NowCall]
  /\ \E i \in 1..Len(ret.out.queries) :
       /\ pk.SQL \in DOMAIN updates[i]
       /\ PkValue(i) = <<>>
       /\ ret.out.queries[i].where.value = [lit |-> "quoted", text |-> <<>>]

\* The columns of every SET list: the first record's keys without the
\* primary-key target, in ascending string order.
SetColumnsFromFirst ==
  \A i \in 1..Len(ret.out.queries) :
    LET q == ret.out.queries[i]
    IN  /\ \A n \in 1..Len(q.set) : \A m \in 1..Len(q.set) :
             n < m => StrLess(q.set[n].col, q.set[m].col)
        /\ \A c \in DOMAIN updates[1] \ {pk.SQL} :
             c \in DOMAIN updates[i] => AssignsOf(q, c) # {}
        /\ \A n \in 1..Len(q.set) : q.set[n].col \in DOMAIN updates[1] \ {pk.SQL}

\* C10 as stated: the column order is the sorted key set of the first
\* record; a record lacking one of these keys has no assignment for it, and
\* a record holding it with value "" assigns NULL.
C10_MissingKeySkipped ==
  Generated =>
    /\ SetColumnsFromFirst
    /\ \A i \in 1..Len(ret.out.queries) : \A c \in DOMAIN updates[1] \ {pk.SQL} :
         /\ c \notin DOMAIN updates[i] => AssignsOf(ret.out.queries[i], c) = {}
         /\ (c \in DOMAIN updates[i] /\ updates[i][c] = <<>>) =>
              \A n \in AssignsOf(ret.out.queries[i], c) :
                ret.out.queries[i].set[n].value = [lit |-> "NULL"]

\* C10 amended: the column order is the sorted key set of the first record;
\* a record lacking one of these keys assigns NULL to that column, exactly
\* as a record holding it with value "".
C10_MissingKeyIsNull ==
  Generated =>
    /\ SetColumnsFromFirst
    /\ \A i \in 1..Len(ret.out.queries) : \A c \in DOMAIN updates[1] \ {pk.SQL} :
         /\ Cardinality(AssignsOf(ret.out.queries[i], c)) = 1
         /\ (c \notin DOMAIN updates[i] \/ updates[i][c] = <<>>) =>
              \A n \in AssignsOf(ret.out.queries[i], c) :
                ret.out.queries[i].set[n].value = [lit |-> "NULL"]

\* A second record that lacks a column of the first record, whose statement
\* assigns NULL to it next to another assignment.
C10_Witness ==
  /\ Generated
  /\ Len(ret.out.queries) = 2
  /\ \E c \in DOMAIN updates[1] \ {pk.SQL} :
       /\ c \notin DOMAIN updates[2]
       /\ \E n \in AssignsOf(ret.out.queries[2], c) :
            ret.out.queries[2].set[n].value = [lit |-> "NULL"]
  /\ Len(ret.out.queries[2].set) = 2

----------------------------------------------------------------------------
(* Properties of a run *)

Returned == pc \in {"run_ret", "exit"}

\* The statement lists printed to standard output.
PrintedSQL == {n \in 1..Len(stdout) : stdout[n].kind = "sql"}

\* C2: when a stage of run fails, run returns that error and prints no SQL
\* text to standard output.
C2_FailureAborts ==
  (Returned /\ err # NoErr) => (runRet = err /\ PrintedSQL = {})

\* The primary-key value of sorted record i: the value under the
\* primary-key target after projection.
SortKey(i) == Get(updates[i], pk.SQL)

IsArrangementOf(p, q) ==
  /\ Len(p) = Len(q)
  /\ \E f \in Perms(Len(q)) : \A i \in 1..Len(q) : p[i] = q[f[i]]

\* C4: the printed statements are in non-decreasing string order of the
\* projected primary-key value, and statement i is the one generated from
\* record i of the sorted projection.
C4_SortedByPk ==
  \A n \in PrintedSQL :
    LET stmts == stdout[n].stmts
    IN  /\ IsArrangementOf(updates, results[1])
        /\ err = NoErr => Len(stmts) = Len(updates)
        /\ \A i \in 1..Len(stmts) : \A j \in 1..Len(stmts) :
             i < j => ~StrLess(SortKey(j), SortKey(i))
        /\ \A i \in 1..Len(stmts) :
             /\ stmts[i].where = [col |-> pk.SQL, value |-> IntOrString(SortKey(i))]
             /\ \A c \in DOMAIN updates[i] \ {pk.SQL} :
                  \E a \in AssignsOf(stmts[i], c) :
                    stmts[i].set[a].value = RuleChain(updates[i][c])

\* A successful run that printed the statement of key "10" before the one
\* of key "2".
C4_Witness ==
  /\ pc = "exit"
  /\ exitCode = 0
  /\ err = NoErr
  /\ \E n \in PrintedSQL :
       /\ Len(stdout[n].stmts) >= 2
       /\ SortKey(1) = <<"1", "0">>
       /\ SortKey(2) = <<"2">>
       /\ stdout[n].stmts[1].where.value = [lit |-> "number", val |-> 10]
       /\ stdout[n].stmts[2].where.value = [lit |-> "number", val |-> 2]

====
